---- MODULE Spec2Model ----
(***************************************************************************)
(* A model of i18n-placeholder-checker (src/unnamed/part_001, the current  *)
(* index.js at lines 305-661): the placeholder tokenizer, the multiset     *)
(* differ, the locale comparator and the report aggregator.                *)
(*                                                                         *)
(* Strings are sequences of one-character strings, indexed from 0 as in    *)
(* JavaScript through CharAt.  A Map is the sequence of its entries in     *)
(* insertion order.                                                        *)
(***************************************************************************)
EXTENDS Integers, Sequences, FiniteSets, TLC

VARIABLES
    pc,                  \* position of the caller
    lastIndex,           \* PLACEHOLDER_PATTERN.lastIndex, module-level state of the /g regex
    keywordPrefixes,     \* options.keywordPrefixes
    value,               \* argument of collectPlaceholders
    counts,              \* the Map returned by the last collectPlaceholders call
    sourceMap,           \* first argument of diffPlaceholders
    targetMap,           \* second argument of diffPlaceholders
    diff,                \* what diffPlaceholders returned
    sourceEntries,       \* the parsed source locale document
    targetEntries,       \* the parsed target locale document
    sourcePlaceholders,  \* the Map built by buildSourcePlaceholderMap
    outcome,             \* what compareLocaleFile returned
    readable,            \* whether fs.readdir succeeds on the directory
    directoryEntries,    \* the Dirent list fs.readdir returns
    source,              \* options.source
    ignore,              \* options.ignore
    fileContents,        \* the document each file of the directory parses to
    resolvedSource,      \* the name resolveSourceFile returned
    localeFiles,         \* the sorted names of the target files
    results,             \* the File Outcomes pushed so far
    report,              \* the Report checkPlaceholders returned
    error,               \* the Error checkPlaceholders threw
    previous             \* how the earlier run of the process ended, if there was one

tokVars == <<value, counts>>
diffVars == <<sourceMap, targetMap, diff>>
cmpVars == <<sourceEntries, targetEntries, sourcePlaceholders, outcome>>

runVars ==
    <<readable, directoryEntries, source, ignore, fileContents, resolvedSource,
      localeFiles, results, report, error, previous>>

vars == <<pc, lastIndex, keywordPrefixes, tokVars, diffVars, cmpVars, runVars>>

-----------------------------------------------------------------------------
(* Bounds *)

\* longest string given to the tokenizer with no keyword prefixes
MaxLen == 6

\* longest string given to the tokenizer with keyword prefixes
MaxKwLen == 5

\* largest occurrence count in the Maps given to the differ
MaxCount == 2

-----------------------------------------------------------------------------
(* JavaScript strings and values *)

\* value[i] of a string: the character, or undefined outside it
CharAt(s, i) == IF i >= 0 /\ i < Len(s) THEN s[i + 1] ELSE "undefined"

\* s.slice(from, to)
Slice(s, from, to) == [k \in 1..(to - from) |-> s[from + k]]

\* A string is the sequence of its UTF-16 code units. An ASCII code unit is
\* written as its character; a code unit outside ASCII is written as the six
\* characters of its escape \uXXXX, in lower-case hexadecimal, which reads
\* the same however the module is decoded.

\* the ASCII characters String.prototype.trim removes: space, tab, line feed,
\* form feed, carriage return and vertical tab U+000B
WhiteSpaceAscii == {" ", "\t", "\n", "\f", "\r", ""}

\* the other characters trim removes, as escapes: U+00A0, U+1680, U+2000 to
\* U+200A, U+2028, U+2029, U+202F, U+205F, U+3000 and U+FEFF
WhiteSpaceEscaped ==
    {"\\u00a0", "\\u1680", "\\u2000", "\\u2001", "\\u2002", "\\u2003",
     "\\u2004", "\\u2005", "\\u2006", "\\u2007", "\\u2008", "\\u2009",
     "\\u200a", "\\u2028", "\\u2029", "\\u202f", "\\u205f", "\\u3000",
     "\\ufeff"}

\* U+00A0, U+1680 and U+FEFF written as themselves: each is a character
\* where the module is read as UTF-8, and is left out where it is not
WhiteSpaceWritten == {c \in {" ", " ", "﻿"} : Len(c) = 1}

\* the White_Space and LineTerminator characters String.prototype.trim removes
WhiteSpace == WhiteSpaceAscii \cup WhiteSpaceEscaped \cup WhiteSpaceWritten

RECURSIVE TrimStart(_)
TrimStart(s) ==
    IF Len(s) > 0 /\ s[1] \in WhiteSpace THEN TrimStart(Tail(s)) ELSE s

RECURSIVE TrimEnd(_)
TrimEnd(s) ==
    IF Len(s) > 0 /\ s[Len(s)] \in WhiteSpace
    THEN TrimEnd(SubSeq(s, 1, Len(s) - 1))
    ELSE s

\* rawToken.trim()
Trim(s) == TrimEnd(TrimStart(s))

\* a parsed JSON value: its kind and, for a string, its characters
JsonString(s) == [kind |-> "string", str |-> s]
JsonOther(k) == [kind |-> k, str |-> <<>>]

\* typeof value
TypeOf(v) ==
    IF v.kind \in {"null", "array", "object"} THEN "object" ELSE v.kind

-----------------------------------------------------------------------------
(* Map: entries [token, count] in insertion order *)

MapHas(m, k) == \E i \in 1..Len(m) : m[i].token = k

\* counts.get(token) ?? 0
MapGetOr0(m, k) ==
    IF MapHas(m, k)
    THEN (CHOOSE e \in {m[i] : i \in 1..Len(m)} : e.token = k).count
    ELSE 0

\* counts.set(token, n): an existing key keeps its place
MapSet(m, k, n) ==
    IF MapHas(m, k)
    THEN [i \in 1..Len(m) |->
            IF m[i].token = k THEN [token |-> k, count |-> n] ELSE m[i]]
    ELSE Append(m, [token |-> k, count |-> n])

-----------------------------------------------------------------------------
(* PLACEHOLDER_PATTERN = /\{([^{}]+)\}/g *)

IsBrace(c) == c \in {"{", "}"}

\* where the greedy run [^{}]+ starting at j stops
RECURSIVE RunEnd(_, _)
RunEnd(s, j) ==
    IF j >= Len(s) \/ IsBrace(CharAt(s, j)) THEN j ELSE RunEnd(s, j + 1)

\* the pattern matches with its "{" at index i
PlaceholderMatchesAt(s, i) ==
    /\ CharAt(s, i) = "{"
    /\ RunEnd(s, i + 1) > i + 1
    /\ CharAt(s, RunEnd(s, i + 1)) = "}"

NoMatch == [found |-> FALSE, index |-> 0, text |-> <<>>, lastIndex |-> 0]

\* an exec whose failed scan leaves lastIndex at the end of the string
RECURSIVE PlaceholderExecKeepingPosition(_, _)
PlaceholderExecKeepingPosition(s, from) ==
    IF from > Len(s) THEN [NoMatch EXCEPT !.lastIndex = Len(s)]
    ELSE IF PlaceholderMatchesAt(s, from)
    THEN [found |-> TRUE, index |-> from,
          text |-> Slice(s, from + 1, RunEnd(s, from + 1)),
          lastIndex |-> RunEnd(s, from + 1) + 1]
    ELSE PlaceholderExecKeepingPosition(s, from + 1)

\* PLACEHOLDER_PATTERN.exec(s) with the scan starting at lastIndex = from:
\* the leftmost match at or after from; a failed scan resets lastIndex to 0
RECURSIVE PlaceholderExec(_, _)
PlaceholderExec(s, from) ==
    IF from > Len(s) THEN NoMatch
    ELSE IF PlaceholderMatchesAt(s, from)
    THEN [found |-> TRUE, index |-> from,
          text |-> Slice(s, from + 1, RunEnd(s, from + 1)),
          lastIndex |-> RunEnd(s, from + 1) + 1]
    ELSE PlaceholderExec(s, from + 1)

-----------------------------------------------------------------------------
(* new RegExp(`${escapeRegExp(prefix)}\\d+`, "g") *)

Digits == {"0", "1", "2", "3", "4", "5", "6", "7", "8", "9"}

\* where the greedy run \d+ starting at j stops
RECURSIVE DigitsEnd(_, _)
DigitsEnd(s, j) ==
    IF j >= Len(s) \/ CharAt(s, j) \notin Digits THEN j ELSE DigitsEnd(s, j + 1)

\* escapeRegExp makes the prefix a literal: it matches its own characters
PrefixAt(s, prefix, i) ==
    /\ i + Len(prefix) <= Len(s)
    /\ \A k \in 1..Len(prefix) : s[i + k] = prefix[k]

KeywordMatchesAt(s, prefix, i) ==
    /\ PrefixAt(s, prefix, i)
    /\ DigitsEnd(s, i + Len(prefix)) > i + Len(prefix)

\* pattern.exec(s) with pattern.lastIndex = from
RECURSIVE KeywordExec(_, _, _)
KeywordExec(s, prefix, from) ==
    IF from > Len(s) THEN NoMatch
    ELSE IF KeywordMatchesAt(s, prefix, from)
    THEN [found |-> TRUE, index |-> from,
          text |-> Slice(s, from, DigitsEnd(s, from + Len(prefix))),
          lastIndex |-> DigitsEnd(s, from + Len(prefix))]
    ELSE KeywordExec(s, prefix, from + 1)

-----------------------------------------------------------------------------
(* collectPlaceholders *)

\* PrimaryLoop without the double-close rule (lines 367-369 left out)
RECURSIVE PrimaryLoopNoDoubleClose(_, _, _)
PrimaryLoopNoDoubleClose(s, from, acc) ==
    LET match == PlaceholderExec(s, from)
        startIndex == match.index
        token == Trim(match.text)
    IN  IF ~match.found THEN [counts |-> acc, lastIndex |-> match.lastIndex]
        ELSE IF startIndex > 0 /\ CharAt(s, startIndex - 1) \in {"\\", "{"}
        THEN PrimaryLoopNoDoubleClose(s, match.lastIndex, acc)
        ELSE IF token = <<>>
        THEN PrimaryLoopNoDoubleClose(s, match.lastIndex, acc)
        ELSE PrimaryLoopNoDoubleClose(s, match.lastIndex,
                         MapSet(acc, token, MapGetOr0(acc, token) + 1))

\* the loop left by a return at the first placeholder counted
RECURSIVE PrimaryLoopReturningEarly(_, _, _)
PrimaryLoopReturningEarly(s, from, acc) ==
    LET match == PlaceholderExec(s, from)
        startIndex == match.index
        rawToken == match.text
        endIndex == startIndex + Len(rawToken) + 2
        token == Trim(rawToken)
    IN  IF ~match.found THEN [counts |-> acc, lastIndex |-> match.lastIndex]
        ELSE IF startIndex > 0 /\ CharAt(s, startIndex - 1) = "\\"
        THEN PrimaryLoopReturningEarly(s, match.lastIndex, acc)
        ELSE IF startIndex > 0 /\ CharAt(s, startIndex - 1) = "{"
        THEN PrimaryLoopReturningEarly(s, match.lastIndex, acc)
        ELSE IF endIndex < Len(s) /\ CharAt(s, endIndex) = "}"
        THEN PrimaryLoopReturningEarly(s, match.lastIndex, acc)
        ELSE IF token = <<>>
        THEN PrimaryLoopReturningEarly(s, match.lastIndex, acc)
        ELSE [counts |-> MapSet(acc, token, MapGetOr0(acc, token) + 1),
              lastIndex |-> match.lastIndex]

\* the while loop over PLACEHOLDER_PATTERN.exec(value), entered with the
\* pattern's lastIndex at from; it ends when exec returns null
RECURSIVE PrimaryLoop(_, _, _)
PrimaryLoop(s, from, acc) ==
    LET match == PlaceholderExec(s, from)
        startIndex == match.index
        rawToken == match.text
        endIndex == startIndex + Len(rawToken) + 2
        token == Trim(rawToken)
    IN  IF ~match.found THEN [counts |-> acc, lastIndex |-> match.lastIndex]
        ELSE IF startIndex > 0 /\ CharAt(s, startIndex - 1) = "\\"
        THEN PrimaryLoop(s, match.lastIndex, acc)
        ELSE IF startIndex > 0 /\ CharAt(s, startIndex - 1) = "{"
        THEN PrimaryLoop(s, match.lastIndex, acc)
        ELSE IF endIndex < Len(s) /\ CharAt(s, endIndex) = "}"
        THEN PrimaryLoop(s, match.lastIndex, acc)
        ELSE IF token = <<>>
        THEN PrimaryLoop(s, match.lastIndex, acc)
        ELSE PrimaryLoop(s, match.lastIndex,
                         MapSet(acc, token, MapGetOr0(acc, token) + 1))

\* the while loop over pattern.exec(value) of one keyword prefix
RECURSIVE KeywordLoop(_, _, _, _)
KeywordLoop(s, prefix, from, acc) ==
    LET match == KeywordExec(s, prefix, from)
        token == match.text
        startIndex == match.index
        endIndex == startIndex + Len(token)
        charBefore == CharAt(s, startIndex - 1)
        charAfter == CharAt(s, endIndex)
    IN  IF ~match.found THEN acc
        ELSE IF charBefore = "{" /\ charAfter = "}"
        THEN KeywordLoop(s, prefix, match.lastIndex, acc)
        ELSE KeywordLoop(s, prefix, match.lastIndex,
                         MapSet(acc, token, MapGetOr0(acc, token) + 1))

\* for (const prefix of keywordPrefixes), from the p-th prefix on
RECURSIVE SecondaryLoop(_, _, _, _)
SecondaryLoop(s, prefixes, p, acc) ==
    IF p > Len(prefixes) THEN acc
    ELSE IF prefixes[p] = <<>>
    THEN SecondaryLoop(s, prefixes, p + 1, acc)
    ELSE SecondaryLoop(s, prefixes, p + 1, KeywordLoop(s, prefixes[p], 0, acc))

\* collectPlaceholders(value, options), called while PLACEHOLDER_PATTERN's
\* lastIndex is entryIndex: the Map it returns and the lastIndex it leaves
collectPlaceholders(v, options, entryIndex) ==
    IF TypeOf(v) # "string"
    THEN [counts |-> <<>>, lastIndex |-> entryIndex]
    ELSE LET primary == PrimaryLoop(v.str, entryIndex, <<>>)
         IN  [counts |->
                 IF Len(options.keywordPrefixes) > 0
                 THEN SecondaryLoop(v.str, options.keywordPrefixes, 1, primary.counts)
                 ELSE primary.counts,
              lastIndex |-> primary.lastIndex]

-----------------------------------------------------------------------------
(* diffPlaceholders *)

\* sourceMap.get(token), for a token the Map has
MapGet(m, k) == (CHOOSE e \in {m[i] : i \in 1..Len(m)} : e.token = k).count

\* the tokens of the entries, in their order
TokenSeq(entries) == [i \in 1..Len(entries) |-> entries[i].token]

\* diffPlaceholders with expected and actual exchanged
diffPlaceholdersSwapped(srcMap, tgtMap) ==
    [missing |-> TokenSeq(SelectSeq(srcMap, LAMBDA e : ~MapHas(tgtMap, e.token))),
     extra |-> TokenSeq(SelectSeq(tgtMap, LAMBDA e : ~MapHas(srcMap, e.token))),
     countMismatch |->
        LET both == SelectSeq(srcMap, LAMBDA e :
                        MapHas(tgtMap, e.token) /\ MapGet(tgtMap, e.token) # e.count)
        IN  [i \in 1..Len(both) |->
                [token |-> both[i].token,
                 expected |-> MapGet(tgtMap, both[i].token),
                 actual |-> both[i].count]]]

\* diffPlaceholders(sourceMap, targetMap): the first loop pushes onto missing
\* and countMismatch in the order of sourceMap, the second onto extra in the
\* order of targetMap
diffPlaceholders(srcMap, tgtMap) ==
    [missing |-> TokenSeq(SelectSeq(srcMap, LAMBDA e : ~MapHas(tgtMap, e.token))),
     extra |-> TokenSeq(SelectSeq(tgtMap, LAMBDA e : ~MapHas(srcMap, e.token))),
     countMismatch |->
        LET both == SelectSeq(srcMap, LAMBDA e :
                        MapHas(tgtMap, e.token) /\ MapGet(tgtMap, e.token) # e.count)
        IN  [i \in 1..Len(both) |->
                [token |-> both[i].token,
                 expected |-> both[i].count,
                 actual |-> MapGet(tgtMap, both[i].token)]]]

NoDiff == [missing |-> <<>>, extra |-> <<>>, countMismatch |-> <<>>]

-----------------------------------------------------------------------------
(* Array.prototype.sort() with no comparator: by UTF-16 code units *)

\* the characters of codes 32 to 95, in code order
AsciiLow ==
    <<" ", "!", "\"", "#", "$", "%", "&", "'", "(", ")", "*", "+", ",", "-", ".", "/",
      "0", "1", "2", "3", "4", "5", "6", "7", "8", "9", ":", ";", "<", "=", ">", "?",
      "@", "A", "B", "C", "D", "E", "F", "G", "H", "I", "J", "K", "L", "M", "N", "O",
      "P", "Q", "R", "S", "T", "U", "V", "W", "X", "Y", "Z", "[", "\\", "]", "^", "_">>

\* the characters of codes 97 to 126, in code order
AsciiHigh ==
    <<"a", "b", "c", "d", "e", "f", "g", "h", "i", "j", "k", "l", "m", "n", "o",
      "p", "q", "r", "s", "t", "u", "v", "w", "x", "y", "z", "{", "|", "}", "~">>

\* c.charCodeAt(0)
CharCode(c) ==
    IF \E i \in 1..Len(AsciiLow) : AsciiLow[i] = c
    THEN 31 + (CHOOSE i \in 1..Len(AsciiLow) : AsciiLow[i] = c)
    ELSE 96 + (CHOOSE i \in 1..Len(AsciiHigh) : AsciiHigh[i] = c)

\* a sorts strictly before b
RECURSIVE StringLess(_, _)
StringLess(a, b) ==
    IF b = <<>> THEN FALSE
    ELSE IF a = <<>> THEN TRUE
    ELSE IF Head(a) = Head(b) THEN StringLess(Tail(a), Tail(b))
    ELSE CharCode(Head(a)) < CharCode(Head(b))

\* x put into the sorted sequence xs
RECURSIVE InsertSorted(_, _)
InsertSorted(xs, x) ==
    IF xs = <<>> THEN <<x>>
    ELSE IF StringLess(x, Head(xs)) THEN <<x>> \o xs
    ELSE <<Head(xs)>> \o InsertSorted(Tail(xs), x)

RECURSIVE SortStrings(_)
SortStrings(xs) ==
    IF xs = <<>> THEN <<>>
    ELSE InsertSorted(SortStrings(SubSeq(xs, 1, Len(xs) - 1)), xs[Len(xs)])

-----------------------------------------------------------------------------
(* formatPlaceholderMap *)

\* String(n) of a non-negative integer
RECURSIVE NumberToString(_)
NumberToString(n) ==
    IF n < 10 THEN <<AsciiLow[17 + n]>>
    ELSE NumberToString(n \div 10) \o <<AsciiLow[17 + (n % 10)]>>

formatPlaceholderMap(placeholderMap) ==
    SortStrings([i \in 1..Len(placeholderMap) |->
        IF placeholderMap[i].count > 1
        THEN placeholderMap[i].token \o <<" ", "(", "x">>
                 \o NumberToString(placeholderMap[i].count) \o <<")">>
        ELSE placeholderMap[i].token])

-----------------------------------------------------------------------------
(* Locale documents: what JSON.parse returned *)

\* a JSON object with its own properties in Object.entries order
JsonObject(entries) == [kind |-> "object", entries |-> entries]

\* the JSON text null
JsonNull == [kind |-> "null", entries |-> <<>>]

\* Object.prototype's properties, which every parsed object inherits
ObjectPrototypeKeys ==
    {"constructor", "toString", "toLocaleString", "valueOf", "hasOwnProperty",
     "isPrototypeOf", "propertyIsEnumerable", "__proto__", "__defineGetter__",
     "__defineSetter__", "__lookupGetter__", "__lookupSetter__"}

HasOwn(doc, key) == \E i \in 1..Len(doc.entries) : doc.entries[i].key = key

\* key in targetEntries: own or inherited
In(key, doc) == HasOwn(doc, key) \/ key \in ObjectPrototypeKeys

\* targetEntries[key], for a key that is in targetEntries
Get(doc, key) ==
    IF HasOwn(doc, key)
    THEN (CHOOSE e \in {doc.entries[i] : i \in 1..Len(doc.entries)} : e.key = key).value
    ELSE IF key = "__proto__" THEN JsonOther("object")
    ELSE JsonOther("function")

-----------------------------------------------------------------------------
(* buildSourcePlaceholderMap *)

\* the for loop over Object.entries(sourceEntries), from the i-th entry on
RECURSIVE BuildLoop(_, _, _, _, _)
BuildLoop(entries, i, collectOptions, map, entryIndex) ==
    IF i > Len(entries) THEN [threw |-> FALSE, map |-> map, lastIndex |-> entryIndex]
    ELSE LET r == collectPlaceholders(entries[i].value, collectOptions, entryIndex)
         IN  BuildLoop(entries, i + 1, collectOptions,
                       Append(map, [key |-> entries[i].key, placeholders |-> r.counts]),
                       r.lastIndex)

\* buildSourcePlaceholderMap(sourceEntries, collectOptions); Object.entries
\* throws a TypeError on null
buildSourcePlaceholderMap(srcEntries, collectOptions, entryIndex) ==
    IF srcEntries.kind = "null"
    THEN [threw |-> TRUE, map |-> <<>>, lastIndex |-> entryIndex]
    ELSE BuildLoop(srcEntries.entries, 1, collectOptions, <<>>, entryIndex)

-----------------------------------------------------------------------------
(* compareLocaleFile *)

\* the test of line 476 without its countMismatch operand
IsCleanIgnoringCounts(d) == Len(d.missing) = 0 /\ Len(d.extra) = 0

\* the negation of the test of line 476
IsClean(d) == Len(d.missing) = 0 /\ Len(d.extra) = 0 /\ Len(d.countMismatch) = 0

\* CompareLoop without the continue of line 471: the key is diffed after its
\* non-string warning
RECURSIVE CompareLoopNoContinue(_, _, _, _, _)
CompareLoopNoContinue(srcPlaceholders, i, tgtEntries, collectOptions, acc) ==
    IF i > Len(srcPlaceholders) THEN acc
    ELSE LET key == srcPlaceholders[i].key
             sourcePlaceholderMap == srcPlaceholders[i].placeholders
             targetValue == Get(tgtEntries, key)
             collected == collectPlaceholders(targetValue, collectOptions, acc.lastIndex)
             targetPlaceholderMap == collected.counts
             d == diffPlaceholders(sourcePlaceholderMap, targetPlaceholderMap)
             warned == IF TypeOf(targetValue) # "string"
                       THEN Append(acc.warnings, [type |-> "non-string", key |-> key,
                                                  actualType |-> TypeOf(targetValue)])
                       ELSE acc.warnings
         IN  IF tgtEntries.kind = "null"
             THEN [acc EXCEPT !.threw = TRUE]
             ELSE IF ~In(key, tgtEntries)
             THEN CompareLoopNoContinue(srcPlaceholders, i + 1, tgtEntries, collectOptions,
                     [acc EXCEPT !.warnings =
                         Append(@, [type |-> "missing-key", key |-> key])])
             ELSE IF ~IsClean(d)
             THEN CompareLoopNoContinue(srcPlaceholders, i + 1, tgtEntries, collectOptions,
                     [acc EXCEPT !.lastIndex = collected.lastIndex,
                                 !.warnings = warned,
                                 !.errors =
                         Append(@, [type |-> "placeholder-mismatch", key |-> key,
                                    diff |-> d,
                                    expected |-> formatPlaceholderMap(sourcePlaceholderMap),
                                    actual |-> formatPlaceholderMap(targetPlaceholderMap)])])
             ELSE CompareLoopNoContinue(srcPlaceholders, i + 1, tgtEntries, collectOptions,
                     [acc EXCEPT !.lastIndex = collected.lastIndex, !.warnings = warned])

\* the for loop over sourcePlaceholders.entries(), from the i-th entry on;
\* the in operator throws a TypeError when targetEntries is null
RECURSIVE CompareLoop(_, _, _, _, _)
CompareLoop(srcPlaceholders, i, tgtEntries, collectOptions, acc) ==
    IF i > Len(srcPlaceholders) THEN acc
    ELSE LET key == srcPlaceholders[i].key
             sourcePlaceholderMap == srcPlaceholders[i].placeholders
             targetValue == Get(tgtEntries, key)
             collected == collectPlaceholders(targetValue, collectOptions, acc.lastIndex)
             targetPlaceholderMap == collected.counts
             d == diffPlaceholders(sourcePlaceholderMap, targetPlaceholderMap)
         IN  IF tgtEntries.kind = "null"
             THEN [acc EXCEPT !.threw = TRUE]
             ELSE IF ~In(key, tgtEntries)
             THEN CompareLoop(srcPlaceholders, i + 1, tgtEntries, collectOptions,
                     [acc EXCEPT !.warnings =
                         Append(@, [type |-> "missing-key", key |-> key])])
             ELSE IF TypeOf(targetValue) # "string"
             THEN CompareLoop(srcPlaceholders, i + 1, tgtEntries, collectOptions,
                     [acc EXCEPT !.warnings =
                         Append(@, [type |-> "non-string", key |-> key,
                                    actualType |-> TypeOf(targetValue)])])
             ELSE IF ~IsClean(d)
             THEN CompareLoop(srcPlaceholders, i + 1, tgtEntries, collectOptions,
                     [acc EXCEPT !.lastIndex = collected.lastIndex,
                                 !.errors =
                         Append(@, [type |-> "placeholder-mismatch", key |-> key,
                                    diff |-> d,
                                    expected |-> formatPlaceholderMap(sourcePlaceholderMap),
                                    actual |-> formatPlaceholderMap(targetPlaceholderMap)])])
             ELSE CompareLoop(srcPlaceholders, i + 1, tgtEntries, collectOptions,
                     [acc EXCEPT !.lastIndex = collected.lastIndex])

NoOutcome == [threw |-> FALSE, errors |-> <<>>, warnings |-> <<>>, lastIndex |-> 0]

\* compareLocaleFile(sourcePlaceholders, targetEntries, collectOptions), called
\* while PLACEHOLDER_PATTERN's lastIndex is entryIndex
compareLocaleFile(srcPlaceholders, tgtEntries, collectOptions, entryIndex) ==
    CompareLoop(srcPlaceholders, 1, tgtEntries, collectOptions,
                [NoOutcome EXCEPT !.lastIndex = entryIndex])

-----------------------------------------------------------------------------
(* File names *)

DotJson == <<".", "j", "s", "o", "n">>

ZhCnJson == <<"z", "h", "-", "c", "n">> \o DotJson
ZhCNJsonCamel == <<"z", "h", "C", "N">> \o DotJson
ZhCNJsonDash == <<"z", "h", "-", "C", "N">> \o DotJson
ZhCNJsonUnderscore == <<"z", "h", "_", "C", "N">> \o DotJson

DEFAULT_SOURCE_CANDIDATES ==
    <<ZhCnJson, ZhCNJsonCamel, ZhCNJsonDash, ZhCNJsonUnderscore>>

PackageJson == <<"p", "a", "c", "k", "a", "g", "e">> \o DotJson

DEFAULT_IGNORES ==
    {PackageJson,
     <<"p", "a", "c", "k", "a", "g", "e", "-", "l", "o", "c", "k">> \o DotJson,
     <<"n", "p", "m", "-", "s", "h", "r", "i", "n", "k", "w", "r", "a", "p">> \o DotJson}

\* name.endsWith(suffix)
EndsWith(name, suffix) ==
    /\ Len(name) >= Len(suffix)
    /\ SubSeq(name, Len(name) - Len(suffix) + 1, Len(name)) = suffix

-----------------------------------------------------------------------------
(* resolveSourceFile *)

\* options.source: undefined, or the string given
Undefined == [given |-> FALSE, name |-> <<>>]
Given(name) == [given |-> TRUE, name |-> name]

\* if (override): undefined and the empty string are falsy
Truthy(override) == override.given /\ override.name # <<>>

\* directoryEntries.some((entry) => entry.isFile() && entry.name === name)
IsFileEntry(entries, name) ==
    \E i \in 1..Len(entries) : entries[i].isFile /\ entries[i].name = name

\* DEFAULT_SOURCE_CANDIDATES.find(...), from the i-th candidate on
RECURSIVE FindCandidate(_, _)
FindCandidate(entries, i) ==
    IF i > Len(DEFAULT_SOURCE_CANDIDATES) THEN [found |-> FALSE, name |-> <<>>]
    ELSE IF IsFileEntry(entries, DEFAULT_SOURCE_CANDIDATES[i])
    THEN [found |-> TRUE, name |-> DEFAULT_SOURCE_CANDIDATES[i]]
    ELSE FindCandidate(entries, i + 1)

NoError == [kind |-> "none", names |-> <<>>]

\* resolveSourceFile that goes on to the defaults when the override is no file
resolveSourceFileFallingBack(entries, override) ==
    IF Truthy(override) /\ IsFileEntry(entries, override.name)
    THEN [ok |-> TRUE, name |-> override.name, error |-> NoError]
    ELSE LET candidate == FindCandidate(entries, 1)
         IN  IF candidate.found
             THEN [ok |-> TRUE, name |-> candidate.name, error |-> NoError]
             ELSE [ok |-> FALSE, name |-> <<>>,
                   error |-> [kind |-> "no-default-source",
                              names |-> DEFAULT_SOURCE_CANDIDATES]]

\* resolveSourceFile(directoryEntries, { directory, override }): the name it
\* returns, or the Error it throws with the names its message holds
resolveSourceFile(entries, override) ==
    IF Truthy(override)
    THEN IF ~IsFileEntry(entries, override.name)
         THEN [ok |-> FALSE, name |-> <<>>,
               error |-> [kind |-> "source-not-found", names |-> <<override.name>>]]
         ELSE [ok |-> TRUE, name |-> override.name, error |-> NoError]
    ELSE LET candidate == FindCandidate(entries, 1)
         IN  IF candidate.found
             THEN [ok |-> TRUE, name |-> candidate.name, error |-> NoError]
             ELSE [ok |-> FALSE, name |-> <<>>,
                   error |-> [kind |-> "no-default-source",
                              names |-> DEFAULT_SOURCE_CANDIDATES]]

-----------------------------------------------------------------------------
(* checkPlaceholders *)

\* new Set([resolvedSource, ...ignore]) with DEFAULT_IGNORES added
IgnoreSet(resolved, ignoreList) ==
    {resolved} \cup {ignoreList[i] : i \in 1..Len(ignoreList)} \cup DEFAULT_IGNORES

\* the names of the entries the filter of lines 555-560 keeps, in listing order
FilteredNames(entries, ignoreSet) ==
    LET kept == SelectSeq(entries, LAMBDA e :
                    e.isFile /\ EndsWith(e.name, DotJson) /\ e.name \notin ignoreSet)
    IN  [i \in 1..Len(kept) |-> kept[i].name]

\* localeFiles with the resolved source left out of the ignore set
LocaleFilesKeepingSource(entries, resolved, ignoreList) ==
    SortStrings(FilteredNames(entries, IgnoreSet(<<>>, ignoreList)))

\* localeFiles: filter, map to names, sort
LocaleFiles(entries, resolved, ignoreList) ==
    SortStrings(FilteredNames(entries, IgnoreSet(resolved, ignoreList)))

\* a file whose text JSON.parse rejects
Invalid == [kind |-> "invalid", entries |-> <<>>]

\* a file fs.readFile cannot read
Unreadable == [kind |-> "unreadable", entries |-> <<>>]

\* a path that is a directory by the time fs.readFile reads it
ReadAsDirectory == [kind |-> "directory", entries |-> <<>>]

\* loadJson(filePath): the Error of fs.readFile when the file cannot be read,
\* which names the path when the file cannot be opened and names nothing
\* when the path is a directory; else the parsed document, or the Error
\* naming the file that JSON.parse rejects
loadJson(contents, name) ==
    IF contents[name].kind = "unreadable"
    THEN [ok |-> FALSE, doc |-> Unreadable,
          error |-> [kind |-> "readFile", names |-> <<name>>]]
    ELSE IF contents[name].kind = "directory"
    THEN [ok |-> FALSE, doc |-> ReadAsDirectory,
          error |-> [kind |-> "readFile", names |-> <<>>]]
    ELSE IF contents[name].kind = "invalid"
    THEN [ok |-> FALSE, doc |-> Invalid, error |-> [kind |-> "parse", names |-> <<name>>]]
    ELSE [ok |-> TRUE, doc |-> contents[name], error |-> NoError]

TypeError == [kind |-> "TypeError", names |-> <<>>]

\* the Report with every file that has a warning listed as warnings-only
BuildReportAnyWarning(resolved, files, rs) ==
    LET failures == SelectSeq(rs, LAMBDA r : Len(r.errors) > 0)
    IN  [ok |-> Len(failures) = 0,
         sourceFile |-> resolved,
         filesChecked |-> files,
         failures |-> failures,
         warningsOnly |-> SelectSeq(rs, LAMBDA r : Len(r.warnings) > 0)]

\* lines 576-588: the partition of the results and the Report
BuildReport(resolved, files, rs) ==
    LET failures == SelectSeq(rs, LAMBDA r : Len(r.errors) > 0)
    IN  [ok |-> Len(failures) = 0,
         sourceFile |-> resolved,
         filesChecked |-> files,
         failures |-> failures,
         warningsOnly |->
             SelectSeq(rs, LAMBDA r : Len(r.errors) = 0 /\ Len(r.warnings) > 0)]

NoReport ==
    [ok |-> FALSE, sourceFile |-> <<>>, filesChecked |-> <<>>, failures |-> <<>>,
     warningsOnly |-> <<>>]

-----------------------------------------------------------------------------
(* Initial values of the state an operation does not use *)

IdleTokenizer == value = JsonOther("undefined") /\ counts = <<>>

IdleDiff == sourceMap = <<>> /\ targetMap = <<>> /\ diff = NoDiff

IdleCompare ==
    /\ sourceEntries = JsonObject(<<>>)
    /\ targetEntries = JsonObject(<<>>)
    /\ sourcePlaceholders = <<>>
    /\ outcome = NoOutcome

IdleRun ==
    /\ readable = TRUE
    /\ directoryEntries = <<>>
    /\ source = Undefined
    /\ ignore = <<>>
    /\ fileContents = <<>>
    /\ resolvedSource = <<>>
    /\ localeFiles = <<>>
    /\ results = <<>>
    /\ report = NoReport
    /\ error = NoError
    /\ previous = <<>>

-----------------------------------------------------------------------------
(* The tokenizer called on its own *)

Strings(alphabet, n) == UNION {[1..k -> alphabet] : k \in 0..n}

NonStrings == {JsonOther("number"), JsonOther("null"), JsonOther("object")}

TokenizerAlphabet == {"{", "}", "\\", " ", "a"}

KeywordAlphabet == {"{", "}", " ", "a", "1"}

KeywordPrefixLists ==
    { << <<"a">> >>, << <<>>, <<"a">> >>, << <<"a", "1">>, <<"a">> >> }

InitTokenizer ==
    /\ pc = "call"
    /\ lastIndex = 0
    /\ keywordPrefixes = <<>>
    /\ value \in {JsonString(s) : s \in Strings(TokenizerAlphabet, MaxLen)}
                    \cup NonStrings
    /\ counts = <<>>
    /\ IdleDiff
    /\ IdleCompare
    /\ IdleRun

InitKeyword ==
    /\ pc = "call"
    /\ lastIndex = 0
    /\ keywordPrefixes \in KeywordPrefixLists
    /\ value \in {JsonString(s) : s \in Strings(KeywordAlphabet, MaxKwLen)}
    /\ counts = <<>>
    /\ IdleDiff
    /\ IdleCompare
    /\ IdleRun

\* one call of the exported collectPlaceholders
CollectCall ==
    /\ pc = "call"
    /\ LET r == collectPlaceholders(value, [keywordPrefixes |-> keywordPrefixes],
                                    lastIndex)
       IN  /\ counts' = r.counts
           /\ lastIndex' = r.lastIndex
    /\ pc' = "returned"
    /\ UNCHANGED <<keywordPrefixes, value, diffVars, cmpVars, runVars>>

NextCollect == CollectCall

SpecTokenizer == InitTokenizer /\ [][NextCollect]_vars

SpecKeyword == InitKeyword /\ [][NextCollect]_vars

-----------------------------------------------------------------------------
(* The differ called on two placeholder Maps *)

DiffTokens == {<<"a">>, <<"b">>, <<"c">>}

\* the Maps collectPlaceholders can return over DiffTokens: distinct tokens
\* in any insertion order, counts from 1 to MaxCount
PlaceholderMaps ==
    {m \in UNION {[1..k -> [token : DiffTokens, count : 1..MaxCount]] :
                     k \in 0..Cardinality(DiffTokens)} :
        \A i, j \in 1..Len(m) : m[i].token = m[j].token => i = j}

InitDiff ==
    /\ pc = "diff"
    /\ lastIndex = 0
    /\ keywordPrefixes = <<>>
    /\ IdleTokenizer
    /\ sourceMap \in PlaceholderMaps
    /\ targetMap \in PlaceholderMaps
    /\ diff = NoDiff
    /\ IdleCompare
    /\ IdleRun

DiffCall ==
    /\ pc = "diff"
    /\ diff' = diffPlaceholders(sourceMap, targetMap)
    /\ pc' = "diffed"
    /\ UNCHANGED <<lastIndex, keywordPrefixes, tokVars, sourceMap, targetMap, cmpVars,
                   runVars>>

NextDiff == DiffCall

SpecDiff == InitDiff /\ [][NextDiff]_vars

-----------------------------------------------------------------------------
(* The comparator called on a source and a target document *)

\* the values a key can hold: four strings and two non-strings
CompareValues ==
    {JsonString(<<"{", "n", "}">>),
     JsonString(<<"{", "m", "}">>),
     JsonString(<<"{", "n", "}", "{", "n", "}">>),
     JsonString(<<"n", "1">>),
     JsonOther("number"),
     JsonOther("null")}

\* the keys of the documents, in the order they are written in the file;
\* the last one is also a property of Object.prototype
CompareKeys == <<"greet", "x", "constructor">>

CompareKeySet == {CompareKeys[i] : i \in 1..Len(CompareKeys)}

\* the values the documents give a key
ValuesOf(key) ==
    IF key = "constructor"
    THEN {JsonString(<<"{", "n", "}">>), JsonOther("number")}
    ELSE CompareValues

\* the entries of the object that holds the keys ks with the values of vals
RECURSIVE ObjectOf(_, _, _)
ObjectOf(ks, vals, i) ==
    IF i > Len(CompareKeys) THEN <<>>
    ELSE IF CompareKeys[i] \in ks
    THEN <<[key |-> CompareKeys[i], value |-> vals[CompareKeys[i]]]>>
             \o ObjectOf(ks, vals, i + 1)
    ELSE ObjectOf(ks, vals, i + 1)

CompareDocuments ==
    UNION {{JsonObject(ObjectOf(ks, vals, 1)) :
                vals \in {f \in [ks -> CompareValues] : \A k \in ks : f[k] \in ValuesOf(k)}} :
              ks \in SUBSET CompareKeySet}

InitCompare ==
    /\ pc = "build"
    /\ lastIndex = 0
    /\ keywordPrefixes \in {<<>>, << <<"n">> >>}
    /\ IdleTokenizer
    /\ IdleDiff
    /\ sourceEntries \in CompareDocuments
    /\ targetEntries \in CompareDocuments \cup {JsonNull}
    /\ sourcePlaceholders = <<>>
    /\ outcome = NoOutcome
    /\ IdleRun

\* buildSourcePlaceholderMap(sourceEntries, collectOptions)
BuildCall ==
    /\ pc = "build"
    /\ LET r == buildSourcePlaceholderMap(sourceEntries,
                    [keywordPrefixes |-> keywordPrefixes], lastIndex)
       IN  /\ sourcePlaceholders' = r.map
           /\ lastIndex' = r.lastIndex
    /\ pc' = "compare"
    /\ UNCHANGED <<keywordPrefixes, tokVars, diffVars, sourceEntries, targetEntries,
                   outcome, runVars>>

\* compareLocaleFile(sourcePlaceholders, targetEntries, collectOptions)
CompareCall ==
    /\ pc = "compare"
    /\ LET r == compareLocaleFile(sourcePlaceholders, targetEntries,
                    [keywordPrefixes |-> keywordPrefixes], lastIndex)
       IN  /\ outcome' = r
           /\ lastIndex' = r.lastIndex
           /\ pc' = IF r.threw THEN "threw" ELSE "compared"
    /\ UNCHANGED <<keywordPrefixes, tokVars, diffVars, sourceEntries, targetEntries,
                   sourcePlaceholders, runVars>>

NextCompare == BuildCall \/ CompareCall

SpecCompare == InitCompare /\ [][NextCompare]_vars

-----------------------------------------------------------------------------
(* One run of checkPlaceholders over a directory *)

EnJson == <<"e", "n">> \o DotJson
FrJson == <<"f", "r">> \o DotJson
ItJson == <<"i", "t">> \o DotJson
DeJsonUpper == <<"d", "e", ".", "J", "S", "O", "N">>

\* the names readdir can return, in the order it returns them
ListingOrder ==
    <<ZhCnJson, PackageJson, ItJson, FrJson, EnJson, ZhCNJsonDash, DeJsonUpper>>

\* what a name can be in the directory
KindsOf(name) ==
    IF name \in {ZhCnJson, FrJson} THEN {"absent", "file", "directory"}
    ELSE {"absent", "file"}

\* the Dirent list of the directory in which each name is of the kind given
RECURSIVE Listing(_, _)
Listing(kinds, i) ==
    IF i > Len(ListingOrder) THEN <<>>
    ELSE IF kinds[ListingOrder[i]] = "absent" THEN Listing(kinds, i + 1)
    ELSE <<[name |-> ListingOrder[i], isFile |-> kinds[ListingOrder[i]] = "file"]>>
             \o Listing(kinds, i + 1)

ListedNames == {ListingOrder[i] : i \in 1..Len(ListingOrder)}

Greet(s) == [key |-> "greet", value |-> JsonString(s)]

\* the source document and documents that match it, miss a key, hold other
\* placeholders, or hold a wrong count and a number
DocSource == JsonObject(<<Greet(<<"{", "n", "}">>), [key |-> "x", value |-> JsonString(<<"{", "m", "}">>)]>>)
DocMissingKey == JsonObject(<<Greet(<<"{", "n", "}">>)>>)
DocMismatch == JsonObject(<<Greet(<<"{", "m", "}">>), [key |-> "x", value |-> JsonString(<<"{", "m", "}">>)]>>)
DocErrorAndWarning == JsonObject(<<Greet(<<"{", "n", "}", "{", "n", "}">>), [key |-> "x", value |-> JsonOther("number")]>>)
DocPackage == JsonObject(<<[key |-> "name", value |-> JsonString(<<"n", "1">>)]>>)

\* the documents a listed file can hold
ContentsOf(name) ==
    IF name = ZhCnJson THEN {DocSource, Invalid, JsonNull, Unreadable}
    ELSE IF name = EnJson
    THEN {DocSource, DocMissingKey, DocMismatch, DocErrorAndWarning, Invalid, Unreadable,
          ReadAsDirectory}
    ELSE IF name = FrJson THEN {DocSource, DocMissingKey, DocMismatch, JsonNull}
    ELSE IF name = ZhCNJsonDash THEN {DocMissingKey}
    ELSE IF name = PackageJson THEN {DocPackage}
    ELSE IF name = ItJson THEN {DocSource}
    ELSE {DocMismatch}

\* the documents the file can hold in the directory of these kinds: one
\* stands for the content of what is no regular file and is never read
ContentsIn(name, kinds) ==
    IF kinds[name] = "file" THEN ContentsOf(name)
    ELSE {CHOOSE d \in ContentsOf(name) : TRUE}

SourceOptions ==
    {Undefined, Given(<<>>), Given(EnJson), Given(ZhCnJson), Given(ZhCNJsonUnderscore)}

IgnoreOptions == {<<>>, <<FrJson>>}

InitRun ==
    /\ pc = "readdir"
    /\ lastIndex = 0
    /\ keywordPrefixes = <<>>
    /\ IdleTokenizer
    /\ IdleDiff
    /\ IdleCompare
    /\ readable \in BOOLEAN
    /\ \E kinds \in [ListedNames -> {"absent", "file", "directory"}] :
          /\ \A n \in ListedNames : kinds[n] \in KindsOf(n)
          /\ readable = FALSE => \A n \in ListedNames : kinds[n] = "absent"
          /\ directoryEntries = Listing(kinds, 1)
          /\ \E cZh \in ContentsIn(ZhCnJson, kinds), cEn \in ContentsIn(EnJson, kinds),
                cFr \in ContentsIn(FrJson, kinds) :
                 fileContents =
                     [n \in ListedNames |->
                         IF n = ZhCnJson THEN cZh
                         ELSE IF n = EnJson THEN cEn
                         ELSE IF n = FrJson THEN cFr
                         ELSE CHOOSE d \in ContentsOf(n) : TRUE]
    /\ source \in (IF readable THEN SourceOptions ELSE {Undefined})
    /\ ignore \in (IF readable THEN IgnoreOptions ELSE {<<>>})
    /\ resolvedSource = <<>>
    /\ localeFiles = <<>>
    /\ results = <<>>
    /\ report = NoReport
    /\ error = NoError
    /\ previous = <<>>

\* lines 541-565: readdir returns or fails; the source is resolved and the
\* target files are found; loadJson(sourcePath) is awaited
ReadDir ==
    /\ pc = "readdir"
    /\ LET r == resolveSourceFile(directoryEntries, source)
       IN  IF ~readable
           THEN /\ error' = [kind |-> "readdir", names |-> <<>>]
                /\ pc' = "failed"
                /\ UNCHANGED <<resolvedSource, localeFiles>>
           ELSE IF ~r.ok
           THEN /\ error' = r.error
                /\ pc' = "failed"
                /\ UNCHANGED <<resolvedSource, localeFiles>>
           ELSE /\ resolvedSource' = r.name
                /\ localeFiles' = LocaleFiles(directoryEntries, r.name, ignore)
                /\ pc' = "loadSource"
                /\ UNCHANGED error
    /\ UNCHANGED <<lastIndex, keywordPrefixes, tokVars, diffVars, cmpVars, readable,
                   directoryEntries, source, ignore, fileContents, results, report,
                   previous>>

\* lines 565-569, and 576-588 when there is no target file: the source is
\* parsed and its placeholder table built
LoadSource ==
    /\ pc = "loadSource"
    /\ LET loaded == loadJson(fileContents, resolvedSource)
           built == buildSourcePlaceholderMap(loaded.doc,
                        [keywordPrefixes |-> keywordPrefixes], lastIndex)
       IN  IF ~loaded.ok
           THEN /\ error' = loaded.error
                /\ pc' = "failed"
                /\ UNCHANGED <<lastIndex, sourceEntries, sourcePlaceholders, report>>
           ELSE IF built.threw
           THEN /\ error' = TypeError
                /\ pc' = "failed"
                /\ sourceEntries' = loaded.doc
                /\ UNCHANGED <<lastIndex, sourcePlaceholders, report>>
           ELSE /\ sourceEntries' = loaded.doc
                /\ sourcePlaceholders' = built.map
                /\ lastIndex' = built.lastIndex
                /\ IF localeFiles = <<>>
                   THEN /\ report' = BuildReport(resolvedSource, localeFiles, results)
                        /\ pc' = "done"
                   ELSE /\ pc' = "loadTarget"
                        /\ UNCHANGED report
                /\ UNCHANGED error
    /\ UNCHANGED <<keywordPrefixes, tokVars, diffVars, targetEntries, outcome, readable,
                   directoryEntries, source, ignore, fileContents, resolvedSource,
                   localeFiles, results, previous>>

\* one turn of the loop of lines 570-574, and lines 576-588 after the last:
\* the next target file is parsed and compared
CompareFile ==
    /\ pc = "loadTarget"
    /\ LET file == localeFiles[Len(results) + 1]
           loaded == loadJson(fileContents, file)
           compared == compareLocaleFile(sourcePlaceholders, loaded.doc,
                           [keywordPrefixes |-> keywordPrefixes], lastIndex)
           pushed == Append(results, [file |-> file, errors |-> compared.errors,
                                      warnings |-> compared.warnings])
       IN  IF ~loaded.ok
           THEN /\ error' = loaded.error
                /\ pc' = "failed"
                /\ UNCHANGED <<lastIndex, targetEntries, outcome, results, report>>
           ELSE IF compared.threw
           THEN /\ error' = TypeError
                /\ pc' = "failed"
                /\ targetEntries' = loaded.doc
                /\ lastIndex' = compared.lastIndex
                /\ UNCHANGED <<outcome, results, report>>
           ELSE /\ targetEntries' = loaded.doc
                /\ outcome' = compared
                /\ lastIndex' = compared.lastIndex
                /\ results' = pushed
                /\ IF Len(pushed) = Len(localeFiles)
                   THEN /\ report' = BuildReport(resolvedSource, localeFiles, pushed)
                        /\ pc' = "done"
                   ELSE /\ pc' = "loadTarget"
                        /\ UNCHANGED report
                /\ UNCHANGED error
    /\ UNCHANGED <<keywordPrefixes, tokVars, diffVars, sourceEntries, sourcePlaceholders,
                   readable, directoryEntries, source, ignore, fileContents,
                   resolvedSource, localeFiles, previous>>

NextRun == ReadDir \/ LoadSource \/ CompareFile

SpecRun == InitRun /\ [][NextRun]_vars

-----------------------------------------------------------------------------
(* Two runs of checkPlaceholders in one process over the same directory *)

\* checkPlaceholders is called again with the same options once the first
\* run has returned or thrown: its locals are fresh, the module-level
\* PLACEHOLDER_PATTERN is the one the first run left
RunAgain ==
    /\ pc \in {"done", "failed"}
    /\ previous = <<>>
    /\ previous' = <<[pc |-> pc, report |-> report, error |-> error]>>
    /\ pc' = "readdir"
    /\ sourceEntries' = JsonObject(<<>>)
    /\ targetEntries' = JsonObject(<<>>)
    /\ sourcePlaceholders' = <<>>
    /\ outcome' = NoOutcome
    /\ resolvedSource' = <<>>
    /\ localeFiles' = <<>>
    /\ results' = <<>>
    /\ report' = NoReport
    /\ error' = NoError
    /\ UNCHANGED <<lastIndex, keywordPrefixes, tokVars, diffVars, readable,
                   directoryEntries, source, ignore, fileContents>>

NextRunTwice == ReadDir \/ LoadSource \/ CompareFile \/ RunAgain

SpecRunTwice == InitRun /\ [][NextRunTwice]_vars

-----------------------------------------------------------------------------
(* A run that compares the target files in any order *)

\* the loop of lines 570-574 from the i-th target file on, entered with the
\* pattern's lastIndex at entryIndex: the results pushed, or the failure
RECURSIVE SequentialLoop(_, _, _)
SequentialLoop(i, entryIndex, acc) ==
    IF i > Len(localeFiles) THEN [threw |-> FALSE, results |-> acc]
    ELSE LET file == localeFiles[i]
             loaded == loadJson(fileContents, file)
             compared == compareLocaleFile(sourcePlaceholders, loaded.doc,
                             [keywordPrefixes |-> keywordPrefixes], entryIndex)
         IN  IF ~loaded.ok \/ compared.threw THEN [threw |-> TRUE, results |-> acc]
             ELSE SequentialLoop(i + 1, compared.lastIndex,
                      Append(acc, [file |-> file, errors |-> compared.errors,
                                   warnings |-> compared.warnings]))

\* the results of the files compared, in the order of the sorted file names
RECURSIVE InFileOrder(_, _)
InFileOrder(rs, i) ==
    IF i > Len(localeFiles) THEN <<>>
    ELSE SelectSeq(rs, LAMBDA r : r.file = localeFiles[i]) \o InFileOrder(rs, i + 1)

\* the body of the loop of lines 570-574 for any target file not yet
\* compared, and lines 576-588 over the results in file order after the last
CompareAnyFile ==
    /\ pc = "loadTarget"
    /\ \E k \in 1..Len(localeFiles) :
          /\ \A j \in 1..Len(results) : results[j].file # localeFiles[k]
          /\ LET file == localeFiles[k]
                 loaded == loadJson(fileContents, file)
                 compared == compareLocaleFile(sourcePlaceholders, loaded.doc,
                                 [keywordPrefixes |-> keywordPrefixes], lastIndex)
                 pushed == Append(results, [file |-> file, errors |-> compared.errors,
                                            warnings |-> compared.warnings])
             IN  IF ~loaded.ok
                 THEN /\ error' = loaded.error
                      /\ pc' = "failed"
                      /\ UNCHANGED <<lastIndex, targetEntries, outcome, results, report>>
                 ELSE IF compared.threw
                 THEN /\ error' = TypeError
                      /\ pc' = "failed"
                      /\ targetEntries' = loaded.doc
                      /\ lastIndex' = compared.lastIndex
                      /\ UNCHANGED <<outcome, results, report>>
                 ELSE /\ targetEntries' = loaded.doc
                      /\ outcome' = compared
                      /\ lastIndex' = compared.lastIndex
                      /\ results' = pushed
                      /\ IF Len(pushed) = Len(localeFiles)
                         THEN /\ report' = BuildReport(resolvedSource, localeFiles,
                                               InFileOrder(pushed, 1))
                              /\ pc' = "done"
                         ELSE /\ pc' = "loadTarget"
                              /\ UNCHANGED report
                      /\ UNCHANGED error
    /\ UNCHANGED <<keywordPrefixes, tokVars, diffVars, sourceEntries, sourcePlaceholders,
                   readable, directoryEntries, source, ignore, fileContents,
                   resolvedSource, localeFiles, previous>>

NextAnyOrder == ReadDir \/ LoadSource \/ CompareAnyFile

SpecAnyOrder == InitRun /\ [][NextAnyOrder]_vars

-----------------------------------------------------------------------------
(* Claims about the tokenizer *)

\* the spans <<i, j>> of s that read "{", one or more non-brace characters, "}"
BraceSpans(s) ==
    {sp \in (0..(Len(s) - 1)) \X (0..(Len(s) - 1)) :
        /\ sp[2] >= sp[1] + 2
        /\ CharAt(s, sp[1]) = "{"
        /\ CharAt(s, sp[2]) = "}"
        /\ \A k \in (sp[1] + 1)..(sp[2] - 1) : CharAt(s, k) \notin {"{", "}"}}

\* the inner text of a span without its surrounding whitespace
RECURSIVE Strip(_)
Strip(t) ==
    IF t = <<>> THEN t
    ELSE IF Head(t) \in WhiteSpace THEN Strip(Tail(t))
    ELSE IF t[Len(t)] \in WhiteSpace THEN Strip(SubSeq(t, 1, Len(t) - 1))
    ELSE t

SpanToken(s, sp) == Strip(SubSeq(s, sp[1] + 2, sp[2]))

\* the spans the four conditions of the tokenizer contract let through
AcceptedSpans(s) ==
    {sp \in BraceSpans(s) :
        /\ CharAt(s, sp[1] - 1) # "\\"
        /\ CharAt(s, sp[1] - 1) # "{"
        /\ CharAt(s, sp[2] + 1) # "}"
        /\ SpanToken(s, sp) # <<>>}

BraceCount(s, t) == Cardinality({sp \in AcceptedSpans(s) : SpanToken(s, sp) = t})

NoDuplicateKeys(m) == \A i, j \in 1..Len(m) : m[i].token = m[j].token => i = j

\* C1: with no keyword prefixes, collectPlaceholders returns exactly the
\* multiset of the trimmed, non-empty inner texts of the brace spans that are
\* not preceded by a backslash or "{" and not followed by "}"; every count is
\* at least 1 and a non-string value yields the empty multiset.
C1_TokenizerMultiset ==
    pc = "returned" =>
        IF value.kind = "string"
        THEN /\ NoDuplicateKeys(counts)
             /\ \A i \in 1..Len(counts) :
                    /\ counts[i].count >= 1
                    /\ counts[i].count = BraceCount(value.str, counts[i].token)
             /\ \A sp \in AcceptedSpans(value.str) :
                    MapHas(counts, SpanToken(value.str, sp))
        ELSE counts = <<>>

\* a string with a repeated token and a span that a rule rejects has been tokenized
C1_Witness ==
    /\ pc = "returned"
    /\ value.kind = "string"
    /\ \E i \in 1..Len(counts) : counts[i].count >= 2

-----------------------------------------------------------------------------
(* Claims about keyword-prefix mode *)

\* the bare occurrences of the p-th configured prefix followed by digits:
\* <<p, i, j>> with the prefix at i and its last digit at j - 1
KeywordOccurrences(s, prefixes) ==
    {o \in (1..Len(prefixes)) \X (0..Len(s)) \X (0..Len(s)) :
        /\ prefixes[o[1]] # <<>>
        /\ o[3] > o[2] + Len(prefixes[o[1]])
        /\ SubSeq(s, o[2] + 1, o[2] + Len(prefixes[o[1]])) = prefixes[o[1]]
        /\ \A k \in (o[2] + Len(prefixes[o[1]]))..(o[3] - 1) : CharAt(s, k) \in Digits
        /\ CharAt(s, o[3]) \notin Digits}

OccurrenceText(s, o) == SubSeq(s, o[2] + 1, o[3])

\* the occurrence is written directly as {prefixNNN}
DirectlyEnclosed(s, o) == CharAt(s, o[2] - 1) = "{" /\ CharAt(s, o[3]) = "}"

\* the occurrence is the whole trimmed token of a placeholder that the
\* primary pass accepts
IsAcceptedPlaceholder(s, o) ==
    \E sp \in AcceptedSpans(s) :
        /\ sp[1] < o[2]
        /\ o[3] <= sp[2]
        /\ SpanToken(s, sp) = OccurrenceText(s, o)

\* what keyword-prefix mode is to count for token t: one per accepted brace
\* placeholder, one per bare occurrence that is not such a placeholder
KeywordCount(s, prefixes, t) ==
    BraceCount(s, t)
    + Cardinality({o \in KeywordOccurrences(s, prefixes) :
                      /\ OccurrenceText(s, o) = t
                      /\ ~DirectlyEnclosed(s, o)
                      /\ ~IsAcceptedPlaceholder(s, o)})

\* C2: with keyword prefixes, each bare occurrence of prefix+digits adds
\* exactly 1 to its token and a brace placeholder the primary pass accepts
\* whose trimmed token is prefix+digits is counted once in total, never a
\* second time by the secondary pass.
C2_NoDoubleCount ==
    pc = "returned" /\ Len(keywordPrefixes) > 0 =>
        /\ NoDuplicateKeys(counts)
        /\ \A i \in 1..Len(counts) :
               counts[i].count =
                   KeywordCount(value.str, keywordPrefixes, counts[i].token)
        /\ \A o \in KeywordOccurrences(value.str, keywordPrefixes) :
               ~DirectlyEnclosed(value.str, o) =>
                   MapHas(counts, OccurrenceText(value.str, o))

\* the accepted placeholders of s carry no whitespace around their token
NoPaddedPlaceholder(s) ==
    \A sp \in AcceptedSpans(s) :
        SubSeq(s, sp[1] + 2, sp[2]) = SpanToken(s, sp)

\* C2 holds of every string whose accepted placeholders are unpadded: the
\* double count comes from the whitespace the primary pass trims
C2_UnpaddedNoDoubleCount ==
    pc = "returned" /\ Len(keywordPrefixes) > 0
        /\ NoPaddedPlaceholder(value.str) =>
        /\ NoDuplicateKeys(counts)
        /\ \A i \in 1..Len(counts) :
               counts[i].count =
                   KeywordCount(value.str, keywordPrefixes, counts[i].token)

-----------------------------------------------------------------------------
(* Claims about the differ *)

SeqRange(q) == {q[i] : i \in 1..Len(q)}

NoRepeats(q) == \A i, j \in 1..Len(q) : q[i] = q[j] => i = j

TokensOf(m) == {m[i].token : i \in 1..Len(m)}

\* how often the multiset m holds token t
Occurrences(m, t) ==
    IF \E i \in 1..Len(m) : m[i].token = t
    THEN m[CHOOSE i \in 1..Len(m) : m[i].token = t].count
    ELSE 0

\* C3: diffPlaceholders returns missing = the tokens of source absent from
\* target, extra = the tokens of target absent from source, countMismatch =
\* one entry (token, source count, target count) per token in both with
\* different counts; the three name disjoint tokens and none twice.
C3_DiffExact ==
    pc = "diffed" =>
        LET src == TokensOf(sourceMap)
            tgt == TokensOf(targetMap)
            mismatched == {diff.countMismatch[i].token : i \in 1..Len(diff.countMismatch)}
        IN  /\ SeqRange(diff.missing) = src \ tgt
            /\ SeqRange(diff.extra) = tgt \ src
            /\ SeqRange(diff.countMismatch) =
                  {[token |-> t, expected |-> Occurrences(sourceMap, t),
                    actual |-> Occurrences(targetMap, t)] :
                      t \in {u \in src \cap tgt :
                                Occurrences(sourceMap, u) # Occurrences(targetMap, u)}}
            /\ NoRepeats(diff.missing)
            /\ NoRepeats(diff.extra)
            /\ NoRepeats(diff.countMismatch)
            /\ Cardinality(mismatched) = Len(diff.countMismatch)
            /\ SeqRange(diff.missing) \cap SeqRange(diff.extra) = {}
            /\ SeqRange(diff.missing) \cap mismatched = {}
            /\ SeqRange(diff.extra) \cap mismatched = {}

\* a diff with a missing token, an extra token and a count mismatch
C3_Witness ==
    /\ pc = "diffed"
    /\ diff.missing # <<>>
    /\ diff.extra # <<>>
    /\ diff.countMismatch # <<>>

-----------------------------------------------------------------------------
(* Claims about the comparator *)

OwnKeys(doc) == {doc.entries[i].key : i \in 1..Len(doc.entries)}

OwnValue(doc, k) == doc.entries[CHOOSE i \in 1..Len(doc.entries) : doc.entries[i].key = k].value

\* the entries of the outcome that name key k
ErrorsAt(o, k) == {i \in 1..Len(o.errors) : o.errors[i].key = k}
WarningsAt(o, k) == {i \in 1..Len(o.warnings) : o.warnings[i].key = k}

\* the multiset a Map stands for
AsMultiset(m) == {m[i] : i \in 1..Len(m)}

\* the multiset that the source table holds for key k
SourceMultiset(k) ==
    AsMultiset(sourcePlaceholders[
        CHOOSE i \in 1..Len(sourcePlaceholders) : sourcePlaceholders[i].key = k
    ].placeholders)

TargetMultiset(k) ==
    AsMultiset(collectPlaceholders(OwnValue(targetEntries, k),
                                   [keywordPrefixes |-> keywordPrefixes], 0).counts)

\* C4: for every source key whose target value is a string, a
\* placeholder-mismatch error is recorded for the key exactly when the source
\* multiset and the target multiset differ.
C4_ErrorIffMultisetsDiffer ==
    pc = "compared" =>
        \A k \in OwnKeys(sourceEntries) :
            (k \in OwnKeys(targetEntries) /\ OwnValue(targetEntries, k).kind = "string") =>
                /\ Cardinality(ErrorsAt(outcome, k)) =
                       IF SourceMultiset(k) # TargetMultiset(k) THEN 1 ELSE 0
                /\ \A i \in ErrorsAt(outcome, k) :
                       outcome.errors[i].type = "placeholder-mismatch"

\* a file compared with one key whose counts differ and one key that matches
C4_Witness ==
    /\ pc = "compared"
    /\ \E k \in OwnKeys(sourceEntries) \cap OwnKeys(targetEntries) :
           /\ OwnValue(targetEntries, k).kind = "string"
           /\ ErrorsAt(outcome, k) # {}
           /\ \E i \in ErrorsAt(outcome, k) : outcome.errors[i].diff.countMismatch # <<>>
    /\ \E k \in OwnKeys(sourceEntries) \cap OwnKeys(targetEntries) :
           /\ OwnValue(targetEntries, k).kind = "string"
           /\ OwnValue(sourceEntries, k).kind = "string"
           /\ SourceMultiset(k) # {}
           /\ ErrorsAt(outcome, k) = {}

\* C5: for every source key absent from the target document, exactly one
\* missing-key warning is recorded for the key, and no error and no other
\* warning; whatever the key's name.
C5_MissingKeyWarning ==
    pc = "compared" =>
        \A k \in OwnKeys(sourceEntries) \ OwnKeys(targetEntries) :
            /\ Cardinality(WarningsAt(outcome, k)) = 1
            /\ \A i \in WarningsAt(outcome, k) : outcome.warnings[i].type = "missing-key"
            /\ ErrorsAt(outcome, k) = {}

\* C5 holds of the keys that Object.prototype does not define
C5_MissingOrdinaryKeyWarning ==
    pc = "compared" =>
        \A k \in (OwnKeys(sourceEntries) \ OwnKeys(targetEntries)) \ ObjectPrototypeKeys :
            /\ Cardinality(WarningsAt(outcome, k)) = 1
            /\ \A i \in WarningsAt(outcome, k) : outcome.warnings[i].type = "missing-key"
            /\ ErrorsAt(outcome, k) = {}

\* the name the typeof operator gives a JSON value
RuntimeType(v) ==
    CASE v.kind = "string" -> "string"
      [] v.kind = "number" -> "number"
      [] v.kind = "boolean" -> "boolean"
      [] OTHER -> "object"

\* the document without the keys that the source does not have
WithoutTargetOnlyKeys(doc) ==
    [doc EXCEPT !.entries =
        SelectSeq(doc.entries, LAMBDA e : e.key \in OwnKeys(sourceEntries))]

\* C6: the File Outcome holds at most one entry per source key, error or
\* warning, and none for other keys; a key whose target value is present but
\* not a string gets exactly one non-string warning with the value's runtime
\* type and no error; the keys only the target has do not change the outcome.
C6_OneEntryPerSourceKey ==
    pc = "compared" =>
        /\ \A k \in OwnKeys(sourceEntries) :
               Cardinality(ErrorsAt(outcome, k)) + Cardinality(WarningsAt(outcome, k)) <= 1
        /\ \A i \in 1..Len(outcome.errors) :
               outcome.errors[i].key \in OwnKeys(sourceEntries)
        /\ \A i \in 1..Len(outcome.warnings) :
               outcome.warnings[i].key \in OwnKeys(sourceEntries)
        /\ \A k \in OwnKeys(sourceEntries) \cap OwnKeys(targetEntries) :
               OwnValue(targetEntries, k).kind # "string" =>
                   /\ ErrorsAt(outcome, k) = {}
                   /\ \E i \in WarningsAt(outcome, k) :
                          outcome.warnings[i] =
                              [type |-> "non-string", key |-> k,
                               actualType |-> RuntimeType(OwnValue(targetEntries, k))]
        /\ outcome = compareLocaleFile(sourcePlaceholders,
                         WithoutTargetOnlyKeys(targetEntries),
                         [keywordPrefixes |-> keywordPrefixes], 0)

\* a target with a key of its own, a non-string value under a source key and
\* a mismatching string under another
C6_Witness ==
    /\ pc = "compared"
    /\ OwnKeys(targetEntries) \ OwnKeys(sourceEntries) # {}
    /\ outcome.errors # <<>>
    /\ \E i \in 1..Len(outcome.warnings) :
           /\ outcome.warnings[i].type = "non-string"
           /\ outcome.warnings[i].key \in OwnKeys(targetEntries)

\* C7: a source key whose value is not a string gets a non-string warning in
\* every target file that contains the key, whatever the target's value is.
C7_SourceNonStringWarned ==
    pc = "compared" =>
        \A k \in OwnKeys(sourceEntries) \cap OwnKeys(targetEntries) :
            OwnValue(sourceEntries, k).kind # "string" =>
                \E i \in WarningsAt(outcome, k) : outcome.warnings[i].type = "non-string"

\* what the comparator does with such a key: the non-string warning is
\* issued exactly when the target's value is not a string
C7_WarnedIffTargetNonString ==
    pc = "compared" =>
        \A k \in OwnKeys(sourceEntries) \cap OwnKeys(targetEntries) :
            OwnValue(sourceEntries, k).kind # "string" =>
                ((\E i \in WarningsAt(outcome, k) : outcome.warnings[i].type = "non-string")
                    <=> OwnValue(targetEntries, k).kind # "string")

-----------------------------------------------------------------------------
(* Claims about the report aggregator *)

\* a comes strictly before b in the order of the UTF-16 code units
Precedes(a, b) ==
    \E i \in 1..Len(b) :
        /\ i <= Len(a) + 1
        /\ \A j \in 1..(i - 1) : a[j] = b[j]
        /\ i = Len(a) + 1 \/ CharCode(a[i]) < CharCode(b[i])

Ascending(names) == \A i \in 1..(Len(names) - 1) : Precedes(names[i], names[i + 1])

FilesOf(rs) == [i \in 1..Len(rs) |-> rs[i].file]

\* C8: in every Report, failures is the checked files with an error,
\* warningsOnly the checked files with no error and a warning, the two are
\* disjoint and in the order of filesChecked, and ok holds exactly when
\* failures is empty.
C8_ReportPartition ==
    pc = "done" =>
        /\ FilesOf(results) = report.filesChecked
        /\ SeqRange(report.failures) = {r \in SeqRange(results) : r.errors # <<>>}
        /\ SeqRange(report.warningsOnly) =
               {r \in SeqRange(results) : r.errors = <<>> /\ r.warnings # <<>>}
        /\ SeqRange(FilesOf(report.failures))
               \cap SeqRange(FilesOf(report.warningsOnly)) = {}
        /\ Ascending(report.filesChecked)
        /\ Ascending(FilesOf(report.failures))
        /\ Ascending(FilesOf(report.warningsOnly))
        /\ report.ok <=> report.failures = <<>>

\* a Report with a failing file that also has a warning, a warnings-only
\* file and a clean file
C8_Witness ==
    /\ pc = "done"
    /\ \E i \in 1..Len(report.failures) : report.failures[i].warnings # <<>>
    /\ report.warningsOnly # <<>>
    /\ \E i \in 1..Len(results) : results[i].errors = <<>> /\ results[i].warnings = <<>>
    /\ ~report.ok

\* the run has resolved its source and found its target files
Discovered == pc \in {"loadSource", "loadTarget", "done"}

BuiltInIgnores ==
    {<<"p", "a", "c", "k", "a", "g", "e", ".", "j", "s", "o", "n">>,
     <<"p", "a", "c", "k", "a", "g", "e", "-", "l", "o", "c", "k", ".", "j", "s", "o", "n">>,
     <<"n", "p", "m", "-", "s", "h", "r", "i", "n", "k", "w", "r", "a", "p", ".", "j", "s",
       "o", "n">>}

HasJsonSuffix(name) ==
    /\ Len(name) >= 5
    /\ name[Len(name) - 4] = "."
    /\ name[Len(name) - 3] = "j"
    /\ name[Len(name) - 2] = "s"
    /\ name[Len(name) - 1] = "o"
    /\ name[Len(name)] = "n"

\* C9: filesChecked is the names of the entries that are regular files, end
\* in ".json", and are neither the resolved source, a built-in ignored name
\* nor a caller-supplied ignore; it is sorted and without duplicates.
C9_FilesChecked ==
    /\ Discovered =>
        /\ SeqRange(localeFiles) =
              {e.name : e \in {d \in SeqRange(directoryEntries) :
                  /\ d.isFile
                  /\ HasJsonSuffix(d.name)
                  /\ d.name # resolvedSource
                  /\ d.name \notin BuiltInIgnores
                  /\ d.name \notin SeqRange(ignore)}}
        /\ Ascending(localeFiles)
        /\ NoRepeats(localeFiles)
        /\ resolvedSource \notin SeqRange(localeFiles)
    /\ pc = "done" => report.filesChecked = localeFiles

\* a listing out of order with a directory named *.json, package.json, an
\* upper-case extension and an ignored file, and two target files found
C9_Witness ==
    /\ Discovered
    /\ Len(localeFiles) >= 2
    /\ \E e \in SeqRange(directoryEntries) : ~e.isFile /\ HasJsonSuffix(e.name)
    /\ \E e \in SeqRange(directoryEntries) : e.isFile /\ e.name \in BuiltInIgnores
    /\ \E e \in SeqRange(directoryEntries) : e.isFile /\ ~HasJsonSuffix(e.name)
    /\ \E e \in SeqRange(directoryEntries) : e.isFile /\ e.name \in SeqRange(ignore)
    /\ localeFiles # FilteredNames(directoryEntries, IgnoreSet(resolvedSource, ignore))

\* the default candidates that are regular files of the directory
FileCandidates ==
    {i \in 1..4 :
        \E e \in SeqRange(directoryEntries) :
            e.isFile /\ e.name = DEFAULT_SOURCE_CANDIDATES[i]}

ResolutionFailed == pc = "failed" /\ error.kind \in {"source-not-found", "no-default-source"}

\* C10: an explicit source filename is used if it is a regular file of the
\* directory, and otherwise the run fails with a resolution error, whatever
\* default exists; with none, the first default candidate that is a regular
\* file is selected, and with no such candidate the run fails with a
\* resolution error naming all four candidates.
C10_SourceResolution ==
    (readable /\ pc # "readdir") =>
        IF source.given /\ source.name # <<>>
        THEN IF \E e \in SeqRange(directoryEntries) : e.isFile /\ e.name = source.name
             THEN ~ResolutionFailed /\ resolvedSource = source.name
             ELSE /\ ResolutionFailed
                  /\ error = [kind |-> "source-not-found", names |-> <<source.name>>]
                  /\ resolvedSource = <<>>
        ELSE IF FileCandidates # {}
             THEN /\ ~ResolutionFailed
                  /\ resolvedSource =
                        DEFAULT_SOURCE_CANDIDATES[
                            CHOOSE i \in FileCandidates : \A j \in FileCandidates : i <= j]
             ELSE /\ ResolutionFailed
                  /\ error.kind = "no-default-source"
                  /\ error.names = <<ZhCnJson, ZhCNJsonCamel, ZhCNJsonDash, ZhCNJsonUnderscore>>
                  /\ resolvedSource = <<>>

\* an explicit source that is no file of a directory holding a default
\* candidate: the run has failed
C10_Witness ==
    /\ pc = "failed"
    /\ source.given /\ source.name # <<>>
    /\ FileCandidates # {}
    /\ error.kind = "source-not-found"

\* no explicit source, the first candidate is a directory and a later one a
\* regular file: the later one is selected
C10_WitnessFallback ==
    /\ pc = "loadSource"
    /\ ~source.given
    /\ \E e \in SeqRange(directoryEntries) : ~e.isFile /\ e.name = ZhCnJson
    /\ resolvedSource = ZhCNJsonDash

-----------------------------------------------------------------------------
(* Claims about the failures of a run *)

ParsesAsJson(name) == fileContents[name].kind # "invalid"

\* the target files read before the one at position i all parse
FirstUnparsable(i) ==
    /\ i \in 1..Len(localeFiles)
    /\ ~ParsesAsJson(localeFiles[i])
    /\ \A j \in 1..(i - 1) : ParsesAsJson(localeFiles[j])

\* the error thrown is one of the fatal conditions: the directory is
\* unreadable, the source is unresolved, or the source or the first target
\* file in sorted order that does not parse is named by a parse error
ListedFatal ==
    \/ error.kind = "readdir" /\ ~readable
    \/ error.kind \in {"source-not-found", "no-default-source"} /\ readable
    \/ /\ error.kind = "parse"
       /\ readable
       /\ resolvedSource # <<>>
       /\ \/ error.names = <<resolvedSource>> /\ ~ParsesAsJson(resolvedSource)
          \/ /\ ParsesAsJson(resolvedSource)
             /\ \E i \in 1..Len(localeFiles) :
                   /\ FirstUnparsable(i)
                   /\ error.names = <<localeFiles[i]>>
                   /\ Len(results) = i - 1

\* C11: a run ends with a complete Report or with a thrown failure and no
\* partial report, and it fails only on a fatal condition: an unreadable
\* directory, an unresolved source, or a parse failure of the source or of
\* the first target file in sorted order that does not parse, named by the
\* error; when none of these holds the run returns a Report.
C11_FatalConditionsOnly ==
    /\ pc = "failed" => report = NoReport /\ ListedFatal
    /\ pc = "done" =>
          /\ error = NoError
          /\ report.filesChecked = localeFiles
          /\ Len(results) = Len(localeFiles)
          /\ \A i \in 1..Len(localeFiles) : ParsesAsJson(localeFiles[i])
    /\ pc \notin {"failed", "done"} => report = NoReport /\ error = NoError

\* no file of the directory holds the JSON document null
NoNullDocument == \A n \in DOMAIN fileContents : fileContents[n].kind # "null"

\* every file of the directory can be read
NoUnreadableFile ==
    \A n \in DOMAIN fileContents : fileContents[n].kind \notin {"unreadable", "directory"}

\* when every file can be read and every document that parses is an object,
\* a run fails only on a fatal condition
C11_ObjectDocumentsFatalOnly ==
    (NoNullDocument /\ NoUnreadableFile) => C11_FatalConditionsOnly

\* a run ends with a Report or with a failure and no report; it fails on a
\* file that cannot be read with the Error of the read, which names the file
\* unless the path was a directory
C11_ReportOrFailure ==
    /\ pc = "failed" => report = NoReport /\ error # NoError
    /\ pc = "done" => error = NoError /\ report.filesChecked = localeFiles
    /\ (pc = "failed" /\ error.kind = "readFile") =>
          \E n \in DOMAIN fileContents :
              \/ fileContents[n].kind = "unreadable" /\ error.names = <<n>>
              \/ fileContents[n].kind = "directory" /\ error.names = <<>>

\* a run over object documents has stopped at a target file that does not
\* parse, after an earlier target file was compared
C11_WitnessTargetParseFailure ==
    /\ pc = "failed"
    /\ NoNullDocument
    /\ NoUnreadableFile
    /\ error.kind = "parse"
    /\ error.names # <<resolvedSource>>
    /\ Len(results) >= 1

-----------------------------------------------------------------------------
(* Claims about repeated calls *)

\* the second run of the process has ended
SecondRunEnded == previous # <<>> /\ pc \in {"done", "failed"}

\* C12: the scan position of the module-level pattern is 0 whenever a call
\* has returned, so no call depends on the calls before it, and a second run
\* of checkPlaceholders in the same process on the same inputs ends as the
\* first did: with the same Report (ok, filesChecked, failures,
\* warningsOnly), or with the same failure.
C12_RepeatableRun ==
    /\ lastIndex = 0
    /\ SecondRunEnded =>
          /\ previous[1].pc = pc
          /\ previous[1].report = report
          /\ previous[1].error = error

\* a second run has returned a Report with a failure and a warnings-only
\* file, after placeholders were scanned in both runs
C12_Witness ==
    /\ SecondRunEnded
    /\ pc = "done"
    /\ report.failures # <<>>
    /\ report.warningsOnly # <<>>
    /\ \E i \in 1..Len(sourcePlaceholders) : sourcePlaceholders[i].placeholders # <<>>

\* the scan position is back at 0 when collectPlaceholders has returned
C12_ScanPositionReset == pc = "returned" => lastIndex = 0

-----------------------------------------------------------------------------
(* Claims about the order of the comparisons *)

\* the table has been built
TableBuilt == pc \in {"loadTarget", "done"}

\* the errors and warnings of the document of the file against the table,
\* computed with the pattern at rest
OutcomeOf(file) ==
    LET compared == compareLocaleFile(sourcePlaceholders, fileContents[file],
                        [keywordPrefixes |-> keywordPrefixes], 0)
    IN  [file |-> file, errors |-> compared.errors, warnings |-> compared.warnings]

\* C13: with the target files compared in any order, the Source Placeholder
\* Table stays the one built from the source document, each File Outcome is
\* the one its document has against that table whatever was compared before
\* it, and when every file has been compared the Report assembled in file
\* order is the Report of the sequential loop.
C13_AnyOrderSameReport ==
    /\ TableBuilt =>
          /\ Len(sourcePlaceholders) = Len(sourceEntries.entries)
          /\ \A i \in 1..Len(sourcePlaceholders) :
                /\ sourcePlaceholders[i].key = sourceEntries.entries[i].key
                /\ sourcePlaceholders[i].placeholders =
                      collectPlaceholders(sourceEntries.entries[i].value,
                          [keywordPrefixes |-> keywordPrefixes], 0).counts
    /\ \A j \in 1..Len(results) : results[j] = OutcomeOf(results[j].file)
    /\ pc = "done" =>
          LET sequential == SequentialLoop(1, 0, <<>>)
          IN  /\ ~sequential.threw
              /\ report = BuildReport(resolvedSource, localeFiles, sequential.results)

\* three target files were compared out of file order, one with an error and
\* one with a warning only, and the Report is assembled
C13_Witness ==
    /\ pc = "done"
    /\ Len(results) >= 3
    /\ FilesOf(results) # localeFiles
    /\ report.failures # <<>>
    /\ report.warningsOnly # <<>>

\* the results the sequential run has pushed are those of the loop
C13_SequentialLoopAgrees ==
    pc = "done" => results = SequentialLoop(1, 0, <<>>).results

====
